---- MODULE Spec2Model ----
(***************************************************************************)
(* SOD spread model (src/main.cpp): the weekly orchestration loop of main, *)
(* the pending-week queue, the weather snapshot, the parallel replica      *)
(* batch and the aggregation of the replicas' infected-oak grids.          *)
(*                                                                         *)
(* Grids are functions from Cells to integers (Img holds int cells).       *)
(* date.h, Img.h and Spore.h are not part of src/; Date, the Img           *)
(* arithmetic and the Sporulation operations are modelled from spec.md.    *)
(***************************************************************************)
EXTENDS Integers, Sequences, FiniteSets, TLC

\* ---------------------------------------------------------------- bounds
\* number of cells of every raster (width * height)
NCells == 2
\* largest host count per cell in the input rasters
MaxCount == 1
\* largest base seed drawn for random_seed
MaxSeed == 1
\* first and last calendar year a run may name (2020 is a leap year)
FirstYear == 2019
LastYear == 2020
\* replica counts (runs=) and worker-thread counts (nprocs=) explored
RunCounts == {1, 2}
ThreadCounts == {1, 2}

\* ------------------------------------------------------ program constants
max_weeks_in_year == 53

Cells == 1..NCells
Years == FirstYear..LastYear
NoAnswer == "none"

\* ------------------------------------------------------------------ Date
isLeapYear(y) == (y % 4 = 0 /\ y % 100 # 0) \/ y % 400 = 0

day_in_month(y, m) ==
    IF m = 2 THEN (IF isLeapYear(y) THEN 29 ELSE 28)
    ELSE IF m \in {4, 6, 9, 11} THEN 30 ELSE 31

Date(y, m, d) == [year |-> y, month |-> m, day |-> d]

\* Date::increasedByWeek: add 7 days with month and year rollover
increasedByWeek(d) ==
    LET nd == d.day + 7
        dim == day_in_month(d.year, d.month)
    IN IF nd > dim
       THEN IF d.month = 12
            THEN Date(d.year + 1, 1, nd - dim)
            ELSE Date(d.year, d.month + 1, nd - dim)
       ELSE Date(d.year, d.month, nd)

\* Date::isYearEnd: the next weekly step leaves the year
isYearEnd(d) == d.month = 12 /\ d.day + 7 > 31

\* operator< and operator>= of Date (total order on year, month, day)
DateLess(a, b) ==
    \/ a.year < b.year
    \/ a.year = b.year /\ a.month < b.month
    \/ a.year = b.year /\ a.month = b.month /\ a.day < b.day

DateGeq(a, b) == ~DateLess(a, b)

\* ------------------------------------------------------------------- Img
ZeroImg == [c \in Cells |-> 0]
ImgMinus(a, b) == [c \in Cells |-> a[c] - b[c]]
ImgPlus(a, b) == [c \in Cells |-> a[c] + b[c]]
ImgTimes(a, b) == [c \in Cells |-> a[c] * b[c]]

\* C++ integer division truncates toward zero
CDiv(a, n) == IF a >= 0 THEN a \div n ELSE -((-a) \div n)
ImgDivScalar(a, n) == [c \in Cells |-> CDiv(a[c], n)]

\* faulty variant of initialize: twice the sources, not capped by the host count
initializeUncapped(img1, img2) ==
    [c \in Cells |-> IF img2[c] > 0 THEN img2[c] * 2 ELSE 0]

\* faulty variant of initialize: capped by the sources, not by twice them
initializeCapOnce(img1, img2) ==
    [c \in Cells |->
        IF img2[c] > 0
        THEN (IF img1[c] < img2[c] THEN img1[c] ELSE img2[c])
        ELSE 0]

\* initialize(img1, img2), cell by cell (equal shapes)
initialize(img1, img2) ==
    [c \in Cells |->
        IF img2[c] > 0
        THEN IF img1[c] > img2[c]
             THEN (IF img1[c] < img2[c] * 2 THEN img1[c] ELSE img2[c] * 2)
             ELSE img1[c]
        ELSE 0]

\* all_infected(S_oaks_rast)
all_infected(S) == \A c \in Cells : ~(S[c] > 0)

\* ------------------------------------------------------------ enum parsers
\* the value parsed from the text of an option, <<>> when the parser throws
Directions == {"N", "NE", "E", "SE", "S", "SW", "W", "NW", "NONE"}
direction_enum_from_string(text) ==
    IF text \in Directions THEN <<text>> ELSE <<>>

radial_type_from_string(text) ==
    IF text = "cauchy" THEN <<"cauchy">>
    ELSE IF text = "cauchy_mix" THEN <<"cauchy_mix">>
    ELSE <<>>

\* faulty variant of seasonality_from_string: whatever is not "yes" is "no"
seasonalityLenient(text) == IF text = "yes" THEN <<TRUE>> ELSE <<FALSE>>

seasonality_from_string(text) ==
    IF text = "yes" THEN <<TRUE>>
    ELSE IF text = "no" THEN <<FALSE>>
    ELSE <<>>

\* ------------------------------------------------- replica random stream
\* one multiplicative congruential stream per replica (prime modulus, a
\* primitive root as multiplier), seeded from the replica's seed
RngMod == 5
RngMul == 2
NextRng(g) == (g * RngMul) % RngMod

\* unsigned (32-bit) seed_value, kept as two 16-bit halves <<high, low>>
Half == 65536
UInt(hi, lo) == <<hi, lo>>
\* faulty variant of UAdd: seed_value is not incremented
UAddNothing(u, n) == u

\* seed_value + n modulo 2^32, for 0 <= n < Half
UAdd(u, n) ==
    LET lo == u[2] + n
    IN IF lo < Half THEN <<u[1], lo>> ELSE <<(u[1] + 1) % Half, lo - Half>>
\* residue of an unsigned value
UMod(u, m) == (((u[1] % m) * (Half % m)) + (u[2] % m)) % m

SeedRng(seed) == IF UMod(seed, RngMod) = 0 THEN 1 ELSE UMod(seed, RngMod)

\* ------------------------------------------------------------ Sporulation
\* Sporulation(seed, size): own generator, spore-count grid sp
Sporulation(seed) ==
    [seed |-> seed, generator |-> SeedRng(seed), sp |-> ZeroImg]

\* weather multiplier of a cell: the per-cell array when spatial weather is
\* configured, the scalar otherwise
WeatherAt(spatial, week_weather, weather_value, c) ==
    IF spatial THEN week_weather[c] ELSE weather_value

RECURSIVE SporeGenFrom(_, _, _, _, _, _, _)
SporeGenFrom(c, sprl, I, spatial, week_weather, weather_value, rate) ==
    IF c > NCells THEN sprl
    ELSE IF I[c] > 0
         THEN LET lambda == I[c] * rate
                              * WeatherAt(spatial, week_weather, weather_value, c)
                  n == IF lambda > 0 THEN sprl.generator % (lambda + 1) ELSE 0
              IN SporeGenFrom(c + 1,
                     [sprl EXCEPT !.generator = NextRng(sprl.generator),
                                  !.sp = [sprl.sp EXCEPT ![c] = n]],
                     I, spatial, week_weather, weather_value, rate)
         ELSE SporeGenFrom(c + 1,
                     [sprl EXCEPT !.sp = [sprl.sp EXCEPT ![c] = 0]],
                     I, spatial, week_weather, weather_value, rate)

\* generateSpores: a spore count per infected cell drawn from the replica's
\* stream, at most I * rate * weather; no spores where nothing is infected
SporeGen(sprl, I, spatial, week_weather, weather_value, rate) ==
    SporeGenFrom(1, sprl, I, spatial, week_weather, weather_value, rate)

\* DispersalKernel: distance draw, mixture draw (mixture family only),
\* direction draw; 0 stands for a destination off the grid
KernelDraws(rtype) == IF rtype = "cauchy_mix" THEN 3 ELSE 2

RECURSIVE Advance(_, _)
Advance(g, n) == IF n = 0 THEN g ELSE Advance(NextRng(g), n - 1)

Destination(c, g, rtype) ==
    LET dist == g % 3
        gd == Advance(g, KernelDraws(rtype) - 1)
        dest == IF gd % 2 = 0 THEN c + dist ELSE c - dist
    IN IF dest \in Cells THEN dest ELSE 0

\* one spore landing on cell d: one susceptible unit of the more available
\* host becomes infected, if any susceptible host remains
Infect(h, d) ==
    IF d = 0 \/ h.S_umca[d] + h.S_oaks[d] <= 0 \/ h.lvtree[d] <= 0 THEN h
    ELSE IF h.S_umca[d] >= h.S_oaks[d]
         THEN [h EXCEPT !.S_umca[d] = @ - 1, !.I_umca[d] = @ + 1]
         ELSE [h EXCEPT !.S_oaks[d] = @ - 1, !.I_oaks[d] = @ + 1]

\* (the destination and the grids after a spore are bound to their values
\* before the next spore is dispersed)
RECURSIVE SpreadFrom(_, _, _, _, _)
SpreadFrom(c, k, h, sp, rtype) ==
    IF c > NCells THEN h
    ELSE IF k >= sp[c] THEN SpreadFrom(c + 1, 0, h, sp, rtype)
         ELSE CHOOSE out \in
                  {SpreadFrom(c, k + 1, h2, sp, rtype) :
                      h2 \in {[Infect(h, d) EXCEPT
                                  !.generator = Advance(@, KernelDraws(rtype))] :
                                  d \in {Destination(c, h.generator, rtype)}}} :
                  TRUE

\* disperseAndInfect: every spore unit of every source cell is dispersed
SporeSpreadDisp(sprl, S_umca, S_oaks, I_umca, I_oaks, lvtree, rtype) ==
    SpreadFrom(1, 0,
        [S_umca |-> S_umca, S_oaks |-> S_oaks, I_umca |-> I_umca,
         I_oaks |-> I_oaks, lvtree |-> lvtree, generator |-> sprl.generator],
        sprl.sp, rtype)

\* ---------------------------------------------------------------- weather
\* records of the weather sources, by calendar week since the start
\* (the NetCDF variables Mcoef and Ccoef, the lines "m c" of the text file)
Mcoef(step, c) == 1 + ((step + c) % 2)
Ccoef(step, c) == 1
\* two text files: moisture alternating week by week, and no moisture
\* before the last weeks of the season
LateWeek == 37
FileLine(file, week) ==
    IF file = "weekly" THEN <<1 + (week % 2), 1>>
    ELSE <<(IF week % max_weeks_in_year >= LateWeek THEN 1 ELSE 0), 1>>

\* weather_file_to_list: one entry m * c per line of the file
weather_file_to_list(file, len) ==
    [i \in 1..len |-> FileLine(file, i - 1)[1] * FileLine(file, i - 1)[2]]

\* get_spatial_weather: the per-cell product of the two coefficients
get_spatial_weather(step) == [c \in Cells |-> Mcoef(step, c) * Ccoef(step, c)]

\* a cell of the freshly allocated weather buffer, and what a read past the
\* end of weather_values may yield
Uninit == -1
Garbage == {0, 3}

\* ------------------------------------------------------------------ state
VARIABLES
    pc,               \* position of main
    opt,              \* parsed options (SodOptions answers)
    umca_rast, oaks_rast, lvtree_rast, I_oaks_rast,
    S_oaks_rast, I_umca_rast, S_umca_rast,
    seed_value,
    weather,          \* spatial weather buffer, one slot per queued week
    weather_value,    \* scalar weather, shared by all worker threads
    sporulations, sus_umca_rasts, sus_oaks_rasts,
    inf_umca_rasts, inf_oaks_rasts,
    unresolved_weeks, \* pending-week queue
    current_week, dd_start,
    week_in_chunk,    \* index of the weather-fetch loop
    run_pc, run_week, \* per replica: position and its own week_in_chunk
    written,          \* rasters written so far: [kind, date, img]
    appended,         \* history: every week ever pushed on the queue
    gen_done, disp_done, \* history: weeks each replica has executed
    passed,           \* history: the last call of each replica
    checked,          \* history: evaluations of all_infected so far
    ref               \* history: each replica in the reference run

rasters == <<umca_rast, oaks_rast, lvtree_rast, S_oaks_rast, I_umca_rast,
             S_umca_rast>>
replicas == <<sporulations, sus_umca_rasts, sus_oaks_rasts, inf_umca_rasts,
              inf_oaks_rasts>>
calendar == <<current_week, dd_start>>
history == <<appended, gen_done, disp_done, passed, checked, ref>>
vars == <<pc, opt, rasters, I_oaks_rast, seed_value, weather, weather_value,
          replicas, unresolved_weeks, calendar, week_in_chunk, run_pc,
          run_week, written, history>>

Runs == 0..(opt.runs - 1)
ss == seasonality_from_string(opt.seasonality) = <<TRUE>>
pwdir == direction_enum_from_string(opt.wind)
rtype == radial_type_from_string(opt.radial_type)
dd_end == Date(opt.end_time, 12, 31)
weather_coeff == opt.nc_weather
weather_values ==
    IF ~opt.nc_weather /\ opt.weather_file # NoAnswer
    THEN weather_file_to_list(opt.weather_file, opt.weather_len) ELSE <<>>

\* the scalar a replica has to pass for calendar week w (nothing is
\* configured for a week past the end of the series)
ConfiguredValue(w) ==
    IF weather_coeff THEN 0
    ELSE IF weather_values # <<>>
         THEN (IF w < Len(weather_values) THEN weather_values[w + 1] ELSE 0)
    ELSE IF opt.weather_value # <<>> THEN opt.weather_value[1]
    ELSE 1

\* the run in which every replica is handed the configured weather of each
\* of its weeks: what a replica holds at the start and after one more week
RefStart(r) ==
    [sprl |-> Sporulation(UAdd(opt.random_seed, r)),
     S_umca |-> ImgMinus(umca_rast, initialize(umca_rast, I_oaks_rast)),
     S_oaks |-> ImgMinus(oaks_rast, I_oaks_rast),
     I_umca |-> initialize(umca_rast, I_oaks_rast),
     I_oaks |-> I_oaks_rast]

RefWeek(st, week) ==
    CHOOSE out \in UNION
        {{[sprl |-> [g EXCEPT !.generator = h.generator],
           S_umca |-> h.S_umca, S_oaks |-> h.S_oaks,
           I_umca |-> h.I_umca, I_oaks |-> h.I_oaks] :
             h \in {SporeSpreadDisp(g, st.S_umca, st.S_oaks, st.I_umca,
                                    st.I_oaks, lvtree_rast, opt.radial_type)}} :
          g \in {SporeGen(st.sprl, st.I_umca, weather_coeff,
                          IF weather_coeff THEN get_spatial_weather(week)
                          ELSE NoAnswer,
                          ConfiguredValue(week), opt.spore_rate)}} :
        TRUE

\* ---------------------------------------------------------------- actions
NoCall == [op |-> "none", week |-> -1, value |-> 0]

\* lines 408-414: a parser of an enumerated option throws
InvalidEnum ==
    \/ seasonality_from_string(opt.seasonality) = <<>>
    \/ pwdir = <<>>
    \/ rtype = <<>>

\* faulty variant of MixtureIncomplete: the mixture weight is not asked for
MixtureNeedsScaleOnly == rtype = <<"cauchy_mix">> /\ ~opt.scale_2

\* lines 417-430: the mixture family without scale_2 or without gamma
MixtureIncomplete ==
    rtype = <<"cauchy_mix">> /\ (~opt.scale_2 \/ ~opt.gamma)

\* lines 436-439
StartAfterEnd == opt.start_time > opt.end_time

ParseFails == InvalidEnum \/ MixtureIncomplete \/ StartAfterEnd

\* lines 396-441: option parsing; an invalid enumerated value, an incomplete
\* mixture family and a start year after the end year are fatal
ParseError ==
    /\ pc = "parse"
    /\ ParseFails
    /\ pc' = "aborted"
    /\ UNCHANGED <<opt, rasters, I_oaks_rast, seed_value, weather,
                   weather_value, replicas, unresolved_weeks, calendar,
                   week_in_chunk, run_pc, run_week, written, history>>

\* lines 432-539: dates, seed, initial rasters, weather source, replicas
Setup ==
    /\ pc = "parse"
    /\ ~ParseFails
    /\ dd_start' = Date(opt.start_time, 1, 1)
    /\ current_week' = 0
    /\ S_oaks_rast' = ImgMinus(oaks_rast, I_oaks_rast)
    /\ I_umca_rast' = initialize(umca_rast, I_oaks_rast)
    /\ S_umca_rast' = ImgMinus(umca_rast, initialize(umca_rast, I_oaks_rast))
    /\ weather_value' =
         IF opt.nc_weather \/ opt.weather_file # NoAnswer THEN 0
         ELSE IF opt.weather_value # <<>> THEN opt.weather_value[1]
         ELSE 1
    /\ weather' = IF weather_coeff
                  THEN [k \in 0..(max_weeks_in_year - 1) |->
                           [c \in Cells |-> Uninit]]
                  ELSE NoAnswer
    /\ sus_umca_rasts' = [r \in Runs |-> S_umca_rast']
    /\ sus_oaks_rasts' = [r \in Runs |-> S_oaks_rast']
    /\ inf_umca_rasts' = [r \in Runs |-> I_umca_rast']
    /\ inf_oaks_rasts' = [r \in Runs |-> I_oaks_rast]
    /\ sporulations' = [r \in Runs |-> Sporulation(UAdd(seed_value, r))]
    /\ seed_value' = UAdd(seed_value, opt.runs)
    /\ unresolved_weeks' = <<>>
    /\ run_pc' = [r \in Runs |-> "idle"]
    /\ run_week' = [r \in Runs |-> 0]
    /\ gen_done' = [r \in Runs |-> <<>>]
    /\ disp_done' = [r \in Runs |-> <<>>]
    /\ passed' = [r \in Runs |-> NoCall]
    /\ pc' = "push"
    /\ UNCHANGED <<opt, umca_rast, oaks_rast, lvtree_rast, I_oaks_rast,
                   week_in_chunk, written, appended, checked>>
    /\ ref' = [r \in Runs |-> RefStart(r)]

\* faulty variant of Queued: the seasonality gate is dropped
QueuedAnyMonth(d) == DateLess(d, dd_end)

\* the condition of lines 543-544
Queued(d) == DateLess(d, dd_end) /\ (~ss \/ ~(d.month > 9))

\* lines 543-545: the week joins the pending queue
PushWeek ==
    /\ pc = "push"
    /\ IF Queued(dd_start)
       THEN /\ unresolved_weeks' = Append(unresolved_weeks, current_week)
            /\ appended' = Append(appended, current_week)
       ELSE UNCHANGED <<unresolved_weeks, appended>>
    /\ pc' = "check"
    /\ UNCHANGED <<opt, rasters, I_oaks_rast, seed_value, weather,
                   weather_value, replicas, calendar, week_in_chunk, run_pc,
                   run_week, written, gen_done, disp_done, passed, checked,
                   ref>>

\* faulty variant of CheckAllInfected: the loop goes on whatever the predicate says
CheckNeverStops ==
    /\ pc = "check"
    /\ pc' = "resolve"
    /\ checked' = checked + 1
    /\ UNCHANGED <<opt, rasters, I_oaks_rast, seed_value, weather,
                   weather_value, replicas, unresolved_weeks, calendar,
                   week_in_chunk, run_pc, run_week, written, appended,
                   gen_done, disp_done, passed, ref>>

\* lines 547-551: early exit when the reference grid has no susceptible oak
CheckAllInfected ==
    /\ pc = "check"
    /\ pc' = IF all_infected(S_oaks_rast) THEN "final" ELSE "resolve"
    /\ checked' = checked + 1
    /\ UNCHANGED <<opt, rasters, I_oaks_rast, seed_value, weather,
                   weather_value, replicas, unresolved_weeks, calendar,
                   week_in_chunk, run_pc, run_week, written, appended,
                   gen_done, disp_done, passed, ref>>

\* faulty variant of AtResolutionPoint: the year boundary is dropped
AtEndDateOnly(d) == DateGeq(d, dd_end)

\* the condition of line 554
AtResolutionPoint(d) == isYearEnd(d) \/ DateGeq(d, dd_end)

\* lines 554-557: year end or end date; a non-empty queue starts a batch
CheckResolve ==
    /\ pc = "resolve"
    /\ IF AtResolutionPoint(dd_start)
       THEN IF unresolved_weeks # <<>>
            THEN pc' = "fetch" /\ week_in_chunk' = 0
            ELSE pc' = "series" /\ UNCHANGED week_in_chunk
       ELSE pc' = "advance" /\ UNCHANGED week_in_chunk
    /\ UNCHANGED <<opt, rasters, I_oaks_rast, seed_value, weather,
                   weather_value, replicas, unresolved_weeks, calendar,
                   run_pc, run_week, written, history>>

\* lines 559-565 and 152-176: weather of one queued week, on the main thread
FetchWeek ==
    /\ pc = "fetch"
    /\ week_in_chunk < Len(unresolved_weeks)
    /\ LET week == unresolved_weeks[week_in_chunk + 1]
       IN IF weather_coeff
          THEN IF week >= opt.weather_len \/ week_in_chunk >= max_weeks_in_year
               THEN pc' = "aborted" /\ UNCHANGED <<weather, week_in_chunk>>
               ELSE /\ weather' = [weather EXCEPT ![week_in_chunk] =
                                      get_spatial_weather(week)]
                    /\ week_in_chunk' = week_in_chunk + 1
                    /\ UNCHANGED pc
          ELSE /\ week_in_chunk' = week_in_chunk + 1
               /\ UNCHANGED <<pc, weather>>
    /\ UNCHANGED <<opt, rasters, I_oaks_rast, seed_value, weather_value,
                   replicas, unresolved_weeks, calendar, run_pc, run_week,
                   written, history>>

\* line 568: the fetch loop is over, the parallel region opens
FetchDone ==
    /\ pc = "fetch"
    /\ week_in_chunk >= Len(unresolved_weeks)
    /\ pc' = "parallel"
    /\ UNCHANGED <<opt, rasters, I_oaks_rast, seed_value, weather,
                   weather_value, replicas, unresolved_weeks, calendar,
                   week_in_chunk, run_pc, run_week, written, history>>

\* ------------------------------------------------------- parallel region
\* iterations of the parallel for that a worker thread is executing
InFlight == {r \in Runs : run_pc[r] \notin {"idle", "finished"}}

\* line 574: only the scalar series form assigns weather_value in the loop
AssignsValue == ~weather_coeff /\ weather_values # <<>>
WeekTop == IF AssignsValue THEN "assign" ELSE "gen"

\* faulty variant of WeekOf: the queue is walked from its end
WeekOfReversed(r) == unresolved_weeks[Len(unresolved_weeks) - run_week[r]]

\* the week a replica is working on
WeekOf(r) == unresolved_weeks[run_week[r] + 1]

\* lines 568-570: a free worker thread takes iteration r
RunBegin(r) ==
    /\ pc = "parallel"
    /\ run_pc[r] = "idle"
    /\ Cardinality(InFlight) < opt.threads
    /\ run_week' = [run_week EXCEPT ![r] = 0]
    /\ run_pc' = [run_pc EXCEPT ![r] = WeekTop]
    /\ UNCHANGED <<pc, opt, rasters, I_oaks_rast, seed_value, weather,
                   weather_value, replicas, unresolved_weeks, calendar,
                   week_in_chunk, written, history>>

\* lines 574-576: weather_value = weather_values[week]; an index past the
\* end of the vector reads whatever is there, or faults
RunWeatherValue(r) ==
    /\ pc = "parallel"
    /\ run_pc[r] = "assign"
    /\ \/ /\ WeekOf(r) < Len(weather_values)
          /\ weather_value' = weather_values[WeekOf(r) + 1]
          /\ run_pc' = [run_pc EXCEPT ![r] = "gen"]
          /\ UNCHANGED pc
       \/ /\ WeekOf(r) >= Len(weather_values)
          /\ \E v \in Garbage : weather_value' = v
          /\ run_pc' = [run_pc EXCEPT ![r] = "gen"]
          /\ UNCHANGED pc
       \/ /\ WeekOf(r) >= Len(weather_values)
          /\ pc' = "aborted"
          /\ UNCHANGED <<weather_value, run_pc>>
    /\ UNCHANGED <<opt, rasters, I_oaks_rast, seed_value, weather, replicas,
                   unresolved_weeks, calendar, week_in_chunk, run_week,
                   written, history>>

\* the slot of the weather buffer a replica reads (week_weather)
WeekWeather(r) == IF weather_coeff THEN weather[run_week[r]] ELSE NoAnswer

\* line 577: sporulations[run].SporeGen(...)
RunSporeGen(r) ==
    /\ pc = "parallel"
    /\ run_pc[r] = "gen"
    /\ sporulations' = [sporulations EXCEPT ![r] =
           SporeGen(@, inf_umca_rasts[r], weather_coeff, WeekWeather(r),
                    weather_value, opt.spore_rate)]
    /\ gen_done' = [gen_done EXCEPT ![r] = Append(@, WeekOf(r))]
    /\ passed' = [passed EXCEPT ![r] =
           [op |-> "gen", week |-> WeekOf(r), value |-> weather_value]]
    /\ run_pc' = [run_pc EXCEPT ![r] = "disp"]
    /\ UNCHANGED <<pc, opt, rasters, I_oaks_rast, seed_value, weather,
                   weather_value, sus_umca_rasts, sus_oaks_rasts,
                   inf_umca_rasts, inf_oaks_rasts, unresolved_weeks, calendar,
                   week_in_chunk, run_week, written, appended, disp_done,
                   checked, ref>>

\* faulty variant of RunSporeSpreadDisp: the susceptible and the infected
\* grids of each host are handed over in each other's place
RunSporeSpreadDispSwapped(r) ==
    /\ pc = "parallel"
    /\ run_pc[r] = "disp"
    /\ \E h \in {SporeSpreadDisp(sporulations[r], inf_umca_rasts[r],
                    inf_oaks_rasts[r], sus_umca_rasts[r], sus_oaks_rasts[r],
                    lvtree_rast, opt.radial_type)} :
          /\ inf_umca_rasts' = [inf_umca_rasts EXCEPT ![r] = h.S_umca]
          /\ inf_oaks_rasts' = [inf_oaks_rasts EXCEPT ![r] = h.S_oaks]
          /\ sus_umca_rasts' = [sus_umca_rasts EXCEPT ![r] = h.I_umca]
          /\ sus_oaks_rasts' = [sus_oaks_rasts EXCEPT ![r] = h.I_oaks]
          /\ sporulations' = [sporulations EXCEPT ![r].generator = h.generator]
    /\ disp_done' = [disp_done EXCEPT ![r] = Append(@, WeekOf(r))]
    /\ ref' = [ref EXCEPT ![r] = RefWeek(@, WeekOf(r))]
    /\ passed' = [passed EXCEPT ![r] =
           [op |-> "disp", week |-> WeekOf(r), value |-> weather_value]]
    /\ run_week' = [run_week EXCEPT ![r] = @ + 1]
    /\ run_pc' = [run_pc EXCEPT ![r] =
           IF run_week[r] + 1 < Len(unresolved_weeks) THEN WeekTop
           ELSE "finished"]
    /\ UNCHANGED <<pc, opt, rasters, I_oaks_rast, seed_value, weather,
                   weather_value, unresolved_weeks, calendar, week_in_chunk,
                   written, appended, gen_done, checked>>

\* faulty variant of RunSporeSpreadDisp: the replica works on the reference
\* grid S_oaks_rast instead of its own copy
RunSporeSpreadDispShared(r) ==
    /\ pc = "parallel"
    /\ run_pc[r] = "disp"
    /\ \E h \in {SporeSpreadDisp(sporulations[r], sus_umca_rasts[r],
                    sus_oaks_rasts[r], inf_umca_rasts[r], inf_oaks_rasts[r],
                    lvtree_rast, opt.radial_type)} :
          /\ sus_umca_rasts' = [sus_umca_rasts EXCEPT ![r] = h.S_umca]
          /\ sus_oaks_rasts' = [sus_oaks_rasts EXCEPT ![r] = h.S_oaks]
          /\ S_oaks_rast' = h.S_oaks
          /\ inf_umca_rasts' = [inf_umca_rasts EXCEPT ![r] = h.I_umca]
          /\ inf_oaks_rasts' = [inf_oaks_rasts EXCEPT ![r] = h.I_oaks]
          /\ sporulations' = [sporulations EXCEPT ![r].generator = h.generator]
    /\ disp_done' = [disp_done EXCEPT ![r] = Append(@, WeekOf(r))]
    /\ ref' = [ref EXCEPT ![r] = RefWeek(@, WeekOf(r))]
    /\ passed' = [passed EXCEPT ![r] =
           [op |-> "disp", week |-> WeekOf(r), value |-> weather_value]]
    /\ run_week' = [run_week EXCEPT ![r] = @ + 1]
    /\ run_pc' = [run_pc EXCEPT ![r] =
           IF run_week[r] + 1 < Len(unresolved_weeks) THEN WeekTop
           ELSE "finished"]
    /\ UNCHANGED <<pc, opt, umca_rast, oaks_rast, lvtree_rast, I_umca_rast,
                   S_umca_rast, I_oaks_rast, seed_value, weather,
                   weather_value, unresolved_weeks, calendar, week_in_chunk,
                   written, appended, gen_done, checked>>

\* lines 579-584: sporulations[run].SporeSpreadDisp(...); ++week_in_chunk
RunSporeSpreadDisp(r) ==
    /\ pc = "parallel"
    /\ run_pc[r] = "disp"
    /\ \E h \in {SporeSpreadDisp(sporulations[r], sus_umca_rasts[r],
                    sus_oaks_rasts[r], inf_umca_rasts[r], inf_oaks_rasts[r],
                    lvtree_rast, opt.radial_type)} :
          /\ sus_umca_rasts' = [sus_umca_rasts EXCEPT ![r] = h.S_umca]
          /\ sus_oaks_rasts' = [sus_oaks_rasts EXCEPT ![r] = h.S_oaks]
          /\ inf_umca_rasts' = [inf_umca_rasts EXCEPT ![r] = h.I_umca]
          /\ inf_oaks_rasts' = [inf_oaks_rasts EXCEPT ![r] = h.I_oaks]
          /\ sporulations' = [sporulations EXCEPT ![r].generator = h.generator]
    /\ disp_done' = [disp_done EXCEPT ![r] = Append(@, WeekOf(r))]
    /\ ref' = [ref EXCEPT ![r] = RefWeek(@, WeekOf(r))]
    /\ passed' = [passed EXCEPT ![r] =
           [op |-> "disp", week |-> WeekOf(r), value |-> weather_value]]
    /\ run_week' = [run_week EXCEPT ![r] = @ + 1]
    /\ run_pc' = [run_pc EXCEPT ![r] =
           IF run_week[r] + 1 < Len(unresolved_weeks) THEN WeekTop
           ELSE "finished"]
    /\ UNCHANGED <<pc, opt, rasters, I_oaks_rast, seed_value, weather,
                   weather_value, unresolved_weeks, calendar, week_in_chunk,
                   written, appended, gen_done, checked>>

\* faulty variant of BatchOver: the barrier waits for one iteration only (nowait)
BatchOverAny == \E r \in Runs : run_pc[r] = "finished"

\* every iteration of the parallel for has ended
BatchOver == \A r \in Runs : run_pc[r] = "finished"

\* faulty variant of JoinBatch: the queue is not cleared after the batch
JoinBatchNoClear ==
    /\ pc = "parallel"
    /\ BatchOver
    /\ run_pc' = [r \in Runs |-> "idle"]
    /\ pc' = "series"
    /\ UNCHANGED <<opt, rasters, I_oaks_rast, seed_value, weather,
                   weather_value, replicas, unresolved_weeks, calendar,
                   week_in_chunk, run_week, written, history>>

\* lines 585-586: implicit barrier of the parallel for, then the queue is
\* cleared
JoinBatch ==
    /\ pc = "parallel"
    /\ BatchOver
    /\ unresolved_weeks' = <<>>
    /\ run_pc' = [r \in Runs |-> "idle"]
    /\ pc' = "series"
    /\ UNCHANGED <<opt, rasters, I_oaks_rast, seed_value, weather,
                   weather_value, replicas, calendar, week_in_chunk, run_week,
                   written, history>>

\* ------------------------------------------------------------ aggregation
RECURSIVE SumImg(_, _)
SumImg(imgs, n) ==
    IF n = 0 THEN ZeroImg ELSE ImgPlus(SumImg(imgs, n - 1), imgs[n - 1])

\* faulty variant of MeanImg: the last replica is left out of the sum
MeanImgSkipsLast(imgs, n) == ImgDivScalar(SumImg(imgs, n - 1), n)

\* lines 590-593 and 620-623: I_oaks_rast.zero(); += each replica; /= runs
MeanImg(imgs, n) == ImgDivScalar(SumImg(imgs, n), n)

\* std::sqrt on an int cell, stored back into the int
RECURSIVE IsqrtFrom(_, _)
IsqrtFrom(a, k) == IF (k + 1) * (k + 1) > a THEN k ELSE IsqrtFrom(a, k + 1)
Isqrt(a) == IF a <= 0 THEN 0 ELSE IsqrtFrom(a, 0)

RECURSIVE SumSq(_, _, _)
SumSq(imgs, mean, n) ==
    IF n = 0 THEN ZeroImg
    ELSE LET tmp == ImgMinus(imgs[n - 1], mean)
         IN ImgPlus(SumSq(imgs, mean, n - 1), ImgTimes(tmp, tmp))

\* faulty variant of StddevImg: sample form, division by n - 1
StddevImgSample(imgs, mean, n) ==
    LET v == ImgDivScalar(SumSq(imgs, mean, n), IF n > 1 THEN n - 1 ELSE 1)
    IN [c \in Cells |-> Isqrt(v[c])]

\* lines 602-609 and 628-635: the standard deviation raster
StddevImg(imgs, mean, n) ==
    LET v == ImgDivScalar(SumSq(imgs, mean, n), n)
    IN [c \in Cells |-> Isqrt(v[c])]

Output(kind, date, img) == [kind |-> kind, date |-> date, img |-> img]

\* faulty variant of SeriesOutput: the mean is accumulated in the first
\* replica's grid instead of I_oaks_rast
SeriesOutputInPlace ==
    /\ pc = "series"
    /\ LET mean == MeanImg(inf_oaks_rasts, opt.runs)
           agg == opt.output_series \/ opt.stddev_series
           cur == IF agg THEN mean ELSE inf_oaks_rasts[0]
           w1 == IF opt.output_series
                 THEN <<Output("output_series", dd_start, cur)>> ELSE <<>>
           w2 == IF opt.stddev_series
                 THEN <<Output("stddev_series", dd_start,
                               StddevImg(inf_oaks_rasts, cur, opt.runs))>>
                 ELSE <<>>
       IN /\ inf_oaks_rasts' = [inf_oaks_rasts EXCEPT ![0] = cur]
          /\ written' = written \o w1 \o w2
    /\ pc' = "advance"
    /\ UNCHANGED <<opt, rasters, I_oaks_rast, seed_value, weather,
                   weather_value, sporulations, sus_umca_rasts, sus_oaks_rasts,
                   inf_umca_rasts, unresolved_weeks, calendar, week_in_chunk,
                   run_pc, run_week, history>>

\* lines 588-612: series rasters at a resolution point
SeriesOutput ==
    /\ pc = "series"
    /\ LET mean == MeanImg(inf_oaks_rasts, opt.runs)
           agg == opt.output_series \/ opt.stddev_series
           cur == IF agg THEN mean ELSE I_oaks_rast
           w1 == IF opt.output_series
                 THEN <<Output("output_series", dd_start, cur)>> ELSE <<>>
           w2 == IF opt.stddev_series
                 THEN <<Output("stddev_series", dd_start,
                               StddevImg(inf_oaks_rasts, cur, opt.runs))>>
                 ELSE <<>>
       IN /\ I_oaks_rast' = cur
          /\ written' = written \o w1 \o w2
    /\ pc' = "advance"
    /\ UNCHANGED <<opt, rasters, seed_value, weather, weather_value, replicas,
                   unresolved_weeks, calendar, week_in_chunk, run_pc, run_week,
                   history>>

\* faulty variant of AdvanceWeek: the loop ends only past the end date (> for >=)
AdvanceWeekStrict ==
    /\ pc = "advance"
    /\ IF DateLess(dd_end, dd_start)
       THEN pc' = "final" /\ UNCHANGED calendar
       ELSE /\ pc' = "push"
            /\ current_week' = current_week + 1
            /\ dd_start' = increasedByWeek(dd_start)
    /\ UNCHANGED <<opt, rasters, I_oaks_rast, seed_value, weather,
                   weather_value, replicas, unresolved_weeks, week_in_chunk,
                   run_pc, run_week, written, history>>

\* lines 615-616 and the increment of line 542
AdvanceWeek ==
    /\ pc = "advance"
    /\ IF DateGeq(dd_start, dd_end)
       THEN pc' = "final" /\ UNCHANGED calendar
       ELSE /\ pc' = "push"
            /\ current_week' = current_week + 1
            /\ dd_start' = increasedByWeek(dd_start)
    /\ UNCHANGED <<opt, rasters, I_oaks_rast, seed_value, weather,
                   weather_value, replicas, unresolved_weeks, week_in_chunk,
                   run_pc, run_week, written, history>>

\* lines 619-637: final mean raster and optional final stddev raster
FinalOutput ==
    /\ pc = "final"
    /\ LET mean == MeanImg(inf_oaks_rasts, opt.runs)
           w1 == <<Output("output", dd_start, mean)>>
           w2 == IF opt.stddev
                 THEN <<Output("stddev", dd_start,
                               StddevImg(inf_oaks_rasts, mean, opt.runs))>>
                 ELSE <<>>
       IN /\ I_oaks_rast' = mean
          /\ written' = written \o w1 \o w2
    /\ pc' = "done"
    /\ UNCHANGED <<opt, rasters, seed_value, weather, weather_value, replicas,
                   unresolved_weeks, calendar, week_in_chunk, run_pc, run_week,
                   history>>

\* ------------------------------------------------------------ initial state
\* records in a weather source: enough for every week of the longest
\* horizon, or too few
FullLen == (max_weeks_in_year + 1) * (LastYear - FirstYear + 1)
ShortLen == 30

\* the weather options of one run: <<ncdf_weather, weather_file, records in
\* the source, weather_value>>; an option without answer is NoAnswer or <<>>
NcWeather(len) == <<TRUE, NoAnswer, len, <<>> >>
FileWeather(file, len) == <<FALSE, file, len, <<>> >>
ValueWeather == <<FALSE, NoAnswer, 0, <<2>> >>
DefaultWeather == <<FALSE, NoAnswer, 0, <<>> >>

Option(start, end, seas, runs, threads, w, seed, series) ==
    [start_time |-> start, end_time |-> end,
     seasonality |-> IF seas THEN "yes" ELSE "no",
     wind |-> "NONE", scale_2 |-> FALSE, gamma |-> FALSE,
     runs |-> runs, threads |-> threads,
     nc_weather |-> w[1], weather_file |-> w[2], weather_len |-> w[3],
     weather_value |-> w[4],
     random_seed |-> seed,
     output_series |-> series, stddev_series |-> series, stddev |-> series,
     spore_rate |-> 1, radial_type |-> "cauchy"]

AllWeather ==
    {NcWeather(FullLen), NcWeather(ShortLen), FileWeather("weekly", FullLen),
     FileWeather("late", FullLen), ValueWeather, DefaultWeather}

\* one replica on one thread: every horizon, season flag, weather form
CalendarOptions ==
    {Option(s, e, seas, 1, 1, w, UInt(0, 0), series) :
        s \in Years, e \in Years, seas \in BOOLEAN, w \in AllWeather,
        series \in BOOLEAN}

\* several replicas one after the other on a single worker thread
SerialOptions ==
    {Option(y, y, seas, n, 1, w, UInt(0, sd), TRUE) :
        y \in Years, seas \in BOOLEAN, n \in RunCounts \ {1},
        w \in AllWeather, sd \in 0..MaxSeed}

\* a text file that ends before the season does
ShortFileOptions ==
    {Option(FirstYear, FirstYear, TRUE, 1, 1, FileWeather("weekly", ShortLen),
            UInt(0, 0), TRUE)}

\* base seeds at the top of the unsigned range
WrapOptions ==
    {Option(FirstYear, FirstYear, TRUE, n, 1, DefaultWeather,
            UInt(Half - 1, Half - 1 - k), FALSE) :
        n \in RunCounts, k \in 0..MaxSeed}

\* several replicas on several worker threads
ParallelOptions ==
    {Option(FirstYear, FirstYear, TRUE, n, t, w, UInt(0, 0), TRUE) :
        n \in RunCounts \ {1}, t \in ThreadCounts \ {1},
        w \in {NcWeather(FullLen), FileWeather("late", FullLen), ValueWeather}}

\* the options checked while parsing: texts of the enumerated options the
\* parsers know and one they do not, scale_2 and gamma given or not
ParsedOptions ==
    {[Option(FirstYear, FirstYear, TRUE, 1, 1, DefaultWeather, UInt(0, 0),
             FALSE)
         EXCEPT !.seasonality = seas, !.wind = wind, !.radial_type = radial,
                !.scale_2 = sc, !.gamma = gm] :
        seas \in {"yes", "maybe"}, wind \in {"N", "UP"},
        radial \in {"cauchy", "cauchy_mix", "gauss"},
        sc \in BOOLEAN, gm \in BOOLEAN}

InitState(o, umca, oaks, lvtree, ioaks) ==
    /\ pc = "parse"
    /\ opt = o
    /\ umca_rast = umca /\ oaks_rast = oaks /\ lvtree_rast = lvtree
    /\ I_oaks_rast = ioaks
    /\ S_oaks_rast = ZeroImg /\ I_umca_rast = ZeroImg /\ S_umca_rast = ZeroImg
    /\ seed_value = o.random_seed
    /\ weather = NoAnswer
    /\ weather_value = 0
    /\ sporulations = << >> /\ sus_umca_rasts = << >>
    /\ sus_oaks_rasts = << >> /\ inf_umca_rasts = << >>
    /\ inf_oaks_rasts = << >>
    /\ unresolved_weeks = << >>
    /\ current_week = 0
    /\ dd_start = Date(o.start_time, 1, 1)
    /\ week_in_chunk = 0
    /\ run_pc = << >> /\ run_week = << >>
    /\ written = << >>
    /\ appended = << >> /\ gen_done = << >> /\ disp_done = << >>
    /\ passed = << >>
    /\ checked = 0
    /\ ref = << >>

\* a source of infection in the first cell, the only one with canopy hosts;
\* susceptible oaks elsewhere
SpreadingRasters ==
    <<[c \in Cells |-> IF c = 1 THEN MaxCount ELSE 0],
      [c \in Cells |-> MaxCount],
      [c \in Cells |-> 2 * MaxCount],
      [c \in Cells |-> IF c = 1 THEN 1 ELSE 0]>>

\* no susceptible oak at all: oaks equals the initial infection
InfectedRasters ==
    <<[c \in Cells |-> MaxCount], [c \in Cells |-> 1],
      [c \in Cells |-> 2 * MaxCount], [c \in Cells |-> 1]>>

\* rasters of the host families: uniform and graded stands, one source cell
Patterns ==
    {[c \in Cells |-> v] : v \in 0..MaxCount}
    \cup {[c \in Cells |-> (v + c) % (MaxCount + 1)] : v \in 0..MaxCount}
Sources == {[c \in Cells |-> IF c = k THEN v ELSE 0] :
               k \in Cells, v \in 0..MaxCount}
Capacities == {[c \in Cells |-> v] : v \in {MaxCount, 2 * MaxCount}}

RasterOption ==
    Option(FirstYear, FirstYear, TRUE, 1, 1, DefaultWeather, UInt(0, 0), FALSE)

InitSweep ==
    \E o \in CalendarOptions \cup SerialOptions \cup ShortFileOptions
             \cup ParallelOptions \cup ParsedOptions \cup WrapOptions :
        \E rs \in {SpreadingRasters, InfectedRasters} :
            /\ (rs = InfectedRasters => o \in CalendarOptions)
            /\ InitState(o, rs[1], rs[2], rs[3], rs[4])

InitRasters ==
    \E umca \in Patterns, oaks \in Patterns, lvtree \in Capacities,
       ioaks \in Sources :
        InitState(RasterOption, umca, oaks, lvtree, ioaks)

Init == InitSweep \/ InitRasters

Next ==
    \/ ParseError
    \/ Setup
    \/ PushWeek
    \/ CheckAllInfected
    \/ CheckResolve
    \/ FetchWeek
    \/ FetchDone
    \/ \E r \in Runs : RunBegin(r)
    \/ \E r \in Runs : RunWeatherValue(r)
    \/ \E r \in Runs : RunSporeGen(r)
    \/ \E r \in Runs : RunSporeSpreadDisp(r)
    \/ JoinBatch
    \/ SeriesOutput
    \/ AdvanceWeek
    \/ FinalOutput

Spec == Init /\ [][Next]_vars

\* ================================================================ claims
Range(seq) == {seq[i] : i \in 1..Len(seq)}
Replicas == DOMAIN passed

\* the scalar series has an entry for calendar week w
InSeries(w) == weather_values = <<>> \/ w < Len(weather_values)

\* C1: in every interleaving of the worker threads, the scalar weather
\* value a replica passes to SporeGen and to SporeSpreadDisp for queued week
\* w is the value configured for week w (entry w of the scalar series).
C1_PassesConfiguredValue ==
    \A r \in Replicas :
        (passed[r].op # "none" /\ InSeries(passed[r].week))
            => passed[r].value = ConfiguredValue(passed[r].week)

\* the Infected grids of the reference run
RefInfected == [r \in Replicas |-> ref[r].I_oaks]
RefInfectedUmca == [r \in Replicas |-> ref[r].I_umca]

FinalMean == {w.img : w \in {x \in Range(written) : x.kind = "output"}}
FinalStddev == {w.img : w \in {x \in Range(written) : x.kind = "stddev"}}

\* C2: a finished run ends with the per-replica Infected grids, the mean and
\* the stddev that every other run with the same options, rasters and seed
\* ends with, whatever the interleaving of the worker threads.
C2_Reproducible ==
    (pc = "done" /\ \A w \in Range(appended) : InSeries(w))
        => /\ inf_oaks_rasts = RefInfected
           /\ inf_umca_rasts = RefInfectedUmca
           /\ FinalMean = {MeanImg(RefInfected, opt.runs)}
           /\ opt.stddev =>
                FinalStddev = {StddevImg(RefInfected,
                                   MeanImg(RefInfected, opt.runs), opt.runs)}

\* ---- C3
StrictlyIncreasing(seq) == \A i \in 1..(Len(seq) - 1) : seq[i] < seq[i + 1]
IsPrefix(a, b) == Len(a) <= Len(b) /\ SubSeq(b, 1, Len(a)) = a

\* C3: within a replica the weeks are executed in queue order, strictly
\* increasing within and across batches, and SporeGen of a week is followed
\* by SporeSpreadDisp of that week before SporeGen of the next one.
C3_WeeksInOrder ==
    \A r \in Replicas :
        /\ StrictlyIncreasing(gen_done[r])
        /\ IsPrefix(gen_done[r], appended)
        /\ IsPrefix(disp_done[r], gen_done[r])
        /\ Len(gen_done[r]) - Len(disp_done[r])
             = (IF run_pc[r] = "disp" THEN 1 ELSE 0)

C3_Witness ==
    \E r \in Replicas :
        /\ run_pc[r] = "disp"
        /\ Len(disp_done[r]) > max_weeks_in_year

\* ---- C4
\* C4: an aggregation step (series or final) runs only when no replica has
\* a week of the batch left: every replica is out of the parallel region
\* and has finished every week it started, and at a series aggregation every
\* week queued so far.
C4_AggregationAfterBarrier ==
    pc \in {"series", "final"} =>
        \A r \in Replicas :
            /\ run_pc[r] = "idle"
            /\ disp_done[r] = gen_done[r]
            /\ pc = "series" => disp_done[r] = appended

C4_Witness ==
    /\ pc = "series"
    /\ opt.runs > 1 /\ opt.threads > 1
    /\ \A r \in Replicas : Len(disp_done[r]) > 1

\* ---- C5
\* the spatial form alone: no replica has touched the batch while the main
\* thread fetches, and during the parallel region every slot of the buffer
\* holds what was fetched for its queued week
SpatialSnapshot ==
    /\ pc = "fetch" =>
         \A r \in Replicas :
             /\ run_pc[r] = "idle"
             /\ Range(gen_done[r]) \cap Range(unresolved_weeks) = {}
    /\ (pc = "parallel" /\ weather_coeff) =>
         \A k \in 0..(Len(unresolved_weeks) - 1) :
             weather[k] = get_spatial_weather(unresolved_weeks[k + 1])

\* C5: the weather of every queued week is in place before any replica
\* executes a step of the batch and stays as fetched while the replicas
\* run, so any two replicas are handed the same weather for a week.
C5_SnapshotBeforeBatch ==
    /\ SpatialSnapshot
    /\ \A r1, r2 \in Replicas :
         (/\ passed[r1].op # "none" /\ passed[r2].op # "none"
          /\ passed[r1].week = passed[r2].week
          /\ InSeries(passed[r1].week))
             => passed[r1].value = passed[r2].value

\* ---- C6
\* the calendar date n days after 1 January of year y
DaysInYear(y) == IF isLeapYear(y) THEN 366 ELSE 365
RECURSIVE InYear(_, _)
InYear(y, n) ==
    IF n >= DaysInYear(y) THEN InYear(y + 1, n - DaysInYear(y)) ELSE <<y, n>>
RECURSIVE InMonth(_, _, _)
InMonth(y, m, n) ==
    IF n >= day_in_month(y, m) THEN InMonth(y, m + 1, n - day_in_month(y, m))
    ELSE Date(y, m, n + 1)
\* the date of calendar week n of the run
WeekDate(n) ==
    LET yn == InYear(opt.start_time, 7 * n) IN InMonth(yn[1], 1, yn[2])
EndDate == Date(opt.end_time, 12, 31)
Last(seq) == seq[Len(seq)]

\* the date precedes the end date and, with seasonality, is in months 1-9
InSeason(d) ==
    /\ DateLess(d, EndDate)
    /\ opt.seasonality = "yes" => d.month \in 1..9

\* C6: the current week is on the queue history exactly if its date
\* precedes the end date and (seasonality is off or its month is at most
\* 9); every week a replica executes has such a date.
C6_QueuedIffInSeason ==
    /\ (Replicas # {} /\ pc # "push") =>
         ((appended # <<>> /\ Last(appended) = current_week)
             <=> InSeason(dd_start))
    /\ \A r \in Replicas :
         passed[r].op # "none" => InSeason(WeekDate(passed[r].week))

C6_Witness ==
    /\ opt.seasonality = "yes"
    /\ pc = "check"
    /\ dd_start.month = 10
    /\ Last(appended) # current_week
    /\ \E r \in Replicas : passed[r].op = "disp"

\* ---- C7
Resolved ==
    /\ unresolved_weeks = <<>>
    /\ StrictlyIncreasing(appended)
    /\ \A r \in Replicas : gen_done[r] = appended /\ disp_done[r] = appended

\* C7: past a resolution point (year boundary or end date) the queue is
\* empty and every week appended so far has been executed exactly once by
\* every replica; when early termination does not fire this holds when the
\* loop has exited.
C7_QueueResolved ==
    /\ (pc = "series"
        \/ (pc = "advance"
            /\ (isYearEnd(dd_start) \/ DateGeq(dd_start, EndDate))))
         => Resolved
    /\ (pc \in {"final", "done"} /\ ~all_infected(S_oaks_rast)) => Resolved

C7_Witness ==
    /\ pc = "done"
    /\ ~all_infected(S_oaks_rast)
    /\ Len(appended) > max_weeks_in_year
    /\ \A r \in Replicas : disp_done[r] = appended

\* ---- C8
EnsembleStopped == pc \in {"final", "done"}

\* C8: all_infected is evaluated once per week, with no replica in the
\* parallel region; the loop goes on only if it was false, and once the loop
\* is left no replica executes a step and none is left half-way.
C8_EnsembleStops ==
    /\ [](/\ pc = "check" => \A r \in Replicas : run_pc[r] = "idle"
          /\ Replicas # {} =>
               checked = current_week
                           + (IF pc \in {"push", "check"} THEN 0 ELSE 1)
          /\ pc \in {"resolve", "fetch", "parallel", "series", "advance"}
               => ~all_infected(S_oaks_rast)
          /\ EnsembleStopped =>
               \A r \in Replicas :
                   run_pc[r] = "idle" /\ gen_done[r] = disp_done[r])
    /\ [][EnsembleStopped => UNCHANGED <<replicas, gen_done, disp_done>>]_vars

C8_Witness ==
    /\ pc = "done"
    /\ Replicas # {}
    /\ all_infected(S_oaks_rast)
    /\ unresolved_weeks # <<>>
    /\ \A r \in Replicas : gen_done[r] = <<>>

\* ---- C9
FinalOutputs == {i \in 1..Len(written) : written[i].kind = "output"}
Terminated == pc \in {"done", "aborted"}

\* C9: the weekly loop terminates; the calendar is one week further per
\* iteration, no iteration starts after a week that reached the end date,
\* the loop is left at the end date or by early termination, and the final
\* mean is written exactly once, from the grids the replicas end with.
C9_LoopTerminates ==
    /\ <>Terminated
    /\ [](Replicas # {} =>
            /\ dd_start = WeekDate(current_week)
            /\ current_week > 0 =>
                 DateLess(WeekDate(current_week - 1), EndDate)
            /\ EnsembleStopped =>
                 (all_infected(S_oaks_rast) \/ DateGeq(dd_start, EndDate))
            /\ Cardinality(FinalOutputs) = (IF pc = "done" THEN 1 ELSE 0)
            /\ pc = "done" =>
                 /\ \A i \in FinalOutputs :
                        written[i].img = MeanImg(inf_oaks_rasts, opt.runs)
                 /\ \A r \in Replicas :
                        run_pc[r] = "idle" /\ gen_done[r] = disp_done[r])

C9_Witness ==
    /\ pc = "done"
    /\ opt.start_time < opt.end_time
    /\ ~all_infected(S_oaks_rast)
    /\ Cardinality(FinalOutputs) = 1
    /\ \A r \in Replicas : Len(disp_done[r]) > max_weeks_in_year

\* ---- C10
\* the input rasters: infected oaks within the oaks, both hosts within the
\* living trees
RastersConsistent ==
    \A c \in Cells :
        /\ 0 <= ImgMinus(oaks_rast, S_oaks_rast)[c]
        /\ ImgMinus(oaks_rast, S_oaks_rast)[c] <= oaks_rast[c]
        /\ oaks_rast[c] <= lvtree_rast[c]
        /\ 0 <= umca_rast[c]
        /\ umca_rast[c] <= lvtree_rast[c]

\* C10: for every replica, both hosts and every cell, from the initial
\* state on: Susceptible >= 0, Infected >= 0, Susceptible + Infected <=
\* living trees, for consistent input rasters.
C10_HostBounds ==
    (Replicas # {} /\ RastersConsistent) =>
        \A r \in Replicas : \A c \in Cells :
            /\ sus_umca_rasts[r][c] >= 0 /\ inf_umca_rasts[r][c] >= 0
            /\ sus_umca_rasts[r][c] + inf_umca_rasts[r][c] <= lvtree_rast[c]
            /\ sus_oaks_rasts[r][c] >= 0 /\ inf_oaks_rasts[r][c] >= 0
            /\ sus_oaks_rasts[r][c] + inf_oaks_rasts[r][c] <= lvtree_rast[c]

C10_Witness ==
    /\ Replicas # {}
    /\ RastersConsistent
    /\ \E r \in Replicas : \E c \in Cells :
           /\ disp_done[r] # <<>>
           /\ inf_umca_rasts[r][c] > I_umca_rast[c]
           /\ sus_umca_rasts[r][c] + inf_umca_rasts[r][c] = lvtree_rast[c]

\* runs of one replica over every horizon, weather form and season flag;
\* the scheduler lets some enabled step of the program happen
InitCalendar ==
    \E o \in CalendarOptions \cup ShortFileOptions :
        \E rs \in {SpreadingRasters, InfectedRasters} :
            InitState(o, rs[1], rs[2], rs[3], rs[4])

FairSpec == InitCalendar /\ [][Next]_vars /\ WF_vars(Next)

\* ---- C11
\* the count of a grid over all cells
RECURSIVE CellSum(_, _)
CellSum(img, n) == IF n = 0 THEN 0 ELSE CellSum(img, n - 1) + img[n]
ImgTotal(img) == CellSum(img, NCells)

\* C11: no step of a replica lowers the Infected count or raises the
\* Susceptible count of a cell, for either host, so the total Infected count
\* of a replica never goes down.
C11_InfectedMonotone ==
    [][\A r \in Replicas : \A c \in Cells :
          /\ inf_umca_rasts'[r][c] >= inf_umca_rasts[r][c]
          /\ inf_oaks_rasts'[r][c] >= inf_oaks_rasts[r][c]
          /\ sus_umca_rasts'[r][c] <= sus_umca_rasts[r][c]
          /\ sus_oaks_rasts'[r][c] <= sus_oaks_rasts[r][c]
          /\ ImgTotal(inf_oaks_rasts'[r]) >= ImgTotal(inf_oaks_rasts[r])
          /\ ImgTotal(inf_umca_rasts'[r]) >= ImgTotal(inf_umca_rasts[r])]_vars

C11_Witness ==
    \E r \in Replicas : \E c \in Cells :
        /\ passed[r].op = "disp"
        /\ inf_oaks_rasts[r][c] > ImgMinus(oaks_rast, S_oaks_rast)[c]
        /\ sus_oaks_rasts[r][c] < S_oaks_rast[c]

\* ------------------------------------------------- aggregation, on its own
\* the aggregation of lines 588-637 applied to replica grids of every shape:
\* the run is at the resolution point of the week that reaches the end date
MaxRuns == 3
MaxAgg == 2

WeekDateFrom(y, n) == LET yn == InYear(y, 7 * n) IN InMonth(yn[1], 1, yn[2])
\* the first calendar week of a one-year run at or past Dec 31
ExitWeek(y) ==
    CHOOSE w \in 0..max_weeks_in_year :
        /\ DateGeq(WeekDateFrom(y, w), Date(y, 12, 31))
        /\ \A v \in 0..(w - 1) : DateLess(WeekDateFrom(y, v), Date(y, 12, 31))
InSeasonWeek(w) == WeekDateFrom(FirstYear, w).month <= 9
SeasonWeeks ==
    SelectSeq([i \in 1..ExitWeek(FirstYear) |-> i - 1], InSeasonWeek)

\* an Infected-oak grid of a replica: v in the first cell, the rest elsewhere
AggGrid(v) == [c \in Cells |-> IF c = 1 THEN v ELSE MaxAgg - v]
AggOaks == [c \in Cells |-> MaxAgg]

InitAgg ==
    \E n \in 1..MaxRuns, series \in BOOLEAN :
      \E vs \in [0..(n - 1) -> 0..MaxAgg] :
        /\ pc = "series"
        /\ opt = Option(FirstYear, FirstYear, TRUE, n, 1, DefaultWeather,
                        UInt(0, 0), series)
        /\ umca_rast = ZeroImg /\ oaks_rast = AggOaks
        /\ lvtree_rast = AggOaks /\ I_oaks_rast = ZeroImg
        /\ S_oaks_rast = AggOaks /\ I_umca_rast = ZeroImg
        /\ S_umca_rast = ZeroImg
        /\ seed_value = UAdd(UInt(0, 0), n)
        /\ weather = NoAnswer
        /\ weather_value = 1
        /\ sporulations = [r \in 0..(n - 1) |-> Sporulation(UAdd(UInt(0, 0), r))]
        /\ sus_umca_rasts = [r \in 0..(n - 1) |-> ZeroImg]
        /\ inf_umca_rasts = [r \in 0..(n - 1) |-> ZeroImg]
        /\ inf_oaks_rasts = [r \in 0..(n - 1) |-> AggGrid(vs[r])]
        /\ sus_oaks_rasts =
             [r \in 0..(n - 1) |-> ImgMinus(AggOaks, AggGrid(vs[r]))]
        /\ unresolved_weeks = << >>
        /\ current_week = ExitWeek(FirstYear)
        /\ dd_start = WeekDateFrom(FirstYear, ExitWeek(FirstYear))
        /\ week_in_chunk = Len(SeasonWeeks)
        /\ run_pc = [r \in 0..(n - 1) |-> "idle"]
        /\ run_week = [r \in 0..(n - 1) |-> Len(SeasonWeeks)]
        /\ written = << >>
        /\ appended = SeasonWeeks
        /\ gen_done = [r \in 0..(n - 1) |-> SeasonWeeks]
        /\ disp_done = [r \in 0..(n - 1) |-> SeasonWeeks]
        /\ passed = [r \in 0..(n - 1) |->
                        [op |-> "disp", week |-> Last(SeasonWeeks), value |-> 1]]
        /\ checked = ExitWeek(FirstYear) + 1
        /\ ref = [r \in 0..(n - 1) |->
                     [sprl |-> Sporulation(UAdd(UInt(0, 0), r)),
                      S_umca |-> ZeroImg,
                      S_oaks |-> ImgMinus(AggOaks, AggGrid(vs[r])),
                      I_umca |-> ZeroImg, I_oaks |-> AggGrid(vs[r])]]

NextAgg ==
    \/ SeriesOutput
    \/ AdvanceWeek
    \/ FinalOutput

AggSpec == InitAgg /\ [][NextAgg]_vars

MeanKinds == {"output_series", "output"}
StddevKinds == {"stddev_series", "stddev"}
Identical == \A r \in Replicas : inf_oaks_rasts[r] = inf_oaks_rasts[0]

\* ---- C12
\* C12: with all replicas holding the same Infected grid, every mean raster
\* written (series and final) is that grid and every stddev raster written
\* is zero in every cell.
C12_IdenticalReplicas ==
    (Replicas # {} /\ Identical) =>
        \A i \in 1..Len(written) :
            /\ written[i].kind \in MeanKinds =>
                 written[i].img = inf_oaks_rasts[0]
            /\ written[i].kind \in StddevKinds => written[i].img = ZeroImg

C12_Witness ==
    /\ pc = "done"
    /\ opt.runs = MaxRuns
    /\ Identical
    /\ inf_oaks_rasts[0] # ZeroImg
    /\ {written[i].kind : i \in 1..Len(written)} = MeanKinds \cup StddevKinds

\* ---- C13
\* the sum of f[0] .. f[n-1]
RECURSIVE SumOver(_, _)
SumOver(f, n) == IF n = 0 THEN 0 ELSE SumOver(f, n - 1) + f[n - 1]
\* per cell: the replica counts, their mean and the mean squared deviation
\* from it, as integer cells hold them
CellValues(c) == [r \in Replicas |-> inf_oaks_rasts[r][c]]
CellMean(c) == SumOver(CellValues(c), opt.runs) \div opt.runs
CellVariance(c) ==
    SumOver([r \in Replicas |->
                (inf_oaks_rasts[r][c] - CellMean(c))
                    * (inf_oaks_rasts[r][c] - CellMean(c))],
            opt.runs) \div opt.runs

\* C13: every mean raster holds, per cell, the sum of the replicas' Infected
\* oaks divided by the replica count, and every stddev raster the integer
\* square root of the sum of squared deviations from that mean divided by
\* the replica count (N, not N - 1).
C13_MeanAndStddev ==
    Replicas # {} =>
        \A i \in 1..Len(written) : \A c \in Cells :
            /\ written[i].kind \in MeanKinds =>
                 written[i].img[c] = CellMean(c)
            /\ written[i].kind \in StddevKinds =>
                 /\ written[i].img[c] >= 0
                 /\ written[i].img[c] * written[i].img[c] <= CellVariance(c)
                 /\ (written[i].img[c] + 1) * (written[i].img[c] + 1)
                        > CellVariance(c)

\* replicas that differ, a mean that is not a whole number, a stddev that
\* the N - 1 form would give differently
C13_Witness ==
    /\ pc = "done"
    /\ opt.runs > 1
    /\ \E c \in Cells :
           /\ SumOver(CellValues(c), opt.runs) % opt.runs # 0
           /\ CellVariance(c) > 0
    /\ {written[i].kind : i \in 1..Len(written)} = MeanKinds \cup StddevKinds
    /\ \E i \in 1..Len(written) :
           written[i].kind = "stddev" /\ written[i].img # ZeroImg

\* ---- C14
\* C14: a step at an aggregation position (series or final) changes no
\* replica's Susceptible or Infected grid, no replica's generator and not
\* the pending queue.
C14_AggregationReadOnly ==
    [][(pc \in {"series", "final"}) =>
          (replicas' = replicas /\ unresolved_weeks' = unresolved_weeks)]_vars

\* a week resolved after a series aggregation that wrote both rasters
C14_Witness ==
    /\ \E i \in 1..Len(written) : written[i].kind = "output_series"
    /\ \E i \in 1..Len(written) : written[i].kind = "stddev_series"
    /\ \E r \in Replicas :
           /\ passed[r].op = "disp"
           /\ passed[r].week >= max_weeks_in_year
           /\ \E i \in 1..Len(written) :
                  /\ written[i].kind = "output_series"
                  /\ inf_oaks_rasts[r] # written[i].img

\* ---- C15
\* nothing of the simulation has happened: no replica, no queued week, no
\* replica step, no output
NothingRun ==
    /\ pc \in {"parse", "aborted"}
    /\ Replicas = {}
    /\ DOMAIN sporulations = {}
    /\ appended = <<>> /\ unresolved_weeks = <<>>
    /\ \A r \in DOMAIN gen_done : gen_done[r] = <<>>
    /\ \A r \in DOMAIN disp_done : disp_done[r] = <<>>
    /\ written = <<>>

MixtureWithoutParameter ==
    opt.radial_type = "cauchy_mix" /\ (~opt.scale_2 \/ ~opt.gamma)

\* C15: a configuration with radial_type=cauchy_mix and no scale_2 or no
\* gamma never gets past option parsing: its only step is the fatal error,
\* and no replica, queued week, replica step or output ever exists.
C15_MixtureRejected ==
    /\ [](MixtureWithoutParameter => NothingRun)
    /\ [][MixtureWithoutParameter => pc' = "aborted"]_vars

\* rejected for the missing mixture weight alone
C15_Witness ==
    /\ pc = "aborted"
    /\ opt.radial_type = "cauchy_mix"
    /\ opt.scale_2 /\ ~opt.gamma
    /\ opt.seasonality \in {"yes", "no"}
    /\ opt.wind \in Directions
    /\ opt.start_time <= opt.end_time

\* ---- C16
InvalidConfiguration ==
    \/ opt.start_time > opt.end_time
    \/ opt.wind \notin {"N", "NE", "E", "SE", "S", "SW", "W", "NW", "NONE"}
    \/ opt.radial_type \notin {"cauchy", "cauchy_mix"}
    \/ opt.seasonality \notin {"yes", "no"}

\* C16: a run with a start year after its end year, or with a wind
\* direction, radial family or seasonality value the parsers do not know,
\* aborts while parsing: no week is queued, no replica step runs and no
\* output is written.
C16_InvalidOptionsAbort ==
    /\ [](InvalidConfiguration => NothingRun)
    /\ [][InvalidConfiguration => pc' = "aborted"]_vars

\* aborted for the seasonality value alone
C16_Witness ==
    /\ pc = "aborted"
    /\ opt.seasonality = "maybe"
    /\ opt.wind \in Directions
    /\ opt.radial_type = "cauchy"
    /\ opt.start_time <= opt.end_time

\* ---- C17
ScalarSeries == ~opt.nc_weather /\ opt.weather_file # NoAnswer

\* C17: with a per-week scalar series, no replica calls generateSpores or
\* disperseAndInfect for a week whose index is outside the series; the run
\* has aborted instead.
C17_SeriesExhaustedFatal ==
    ScalarSeries =>
        \A r \in Replicas :
            passed[r].op # "none" => passed[r].week < opt.weather_len

\* ---- C18
\* base + i modulo 2^32 on the two 16-bit halves of the base seed
SeedPlus(base, i) ==
    <<(base[1] + ((base[2] + i) \div Half)) % Half, (base[2] + i) % Half>>

\* C18: replica i is seeded with the base seed plus i modulo 2^32, a
\* function of the base seed and i alone, and two replicas of a run never
\* get the same seed.
C18_ReplicaSeeds ==
    Replicas # {} =>
        /\ \A r \in Replicas :
               sporulations[r].seed = SeedPlus(opt.random_seed, r)
        /\ \A r1, r2 \in Replicas :
               r1 # r2 => sporulations[r1].seed # sporulations[r2].seed

\* the seed wraps from 2^32 - 1 to 0 between two replicas
C18_Witness ==
    /\ opt.runs > 1
    /\ Replicas # {}
    /\ \E r \in Replicas :
           /\ r + 1 \in Replicas
           /\ sporulations[r].seed = <<Half - 1, Half - 1>>
           /\ sporulations[r + 1].seed = <<0, 0>>
    /\ pc = "done"

\* ---- C19
SeriesKinds == {"output_series", "stddev_series"}
\* a date in the last week of a year of the horizon
YearBoundary(d) ==
    /\ d.month = 12
    /\ d.day + 7 > 31
    /\ d.year \in opt.start_time..opt.end_time

\* C19: every member of the mean and stddev series carries a date in the
\* last week of a year of the simulation horizon.
C19_SeriesAtYearEnd ==
    \A i \in 1..Len(written) :
        written[i].kind \in SeriesKinds => YearBoundary(written[i].date)

\* ------------------------------------------------- initialize, on its own
\* initialize(img1, img2) of lines 46-75 applied to grids of every shape;
\* a grid is its width, its height and its cells by <<row, column>>
MaxSide == 2
Sides == 1..MaxSide

ShapedImg(w, h, k) ==
    [width |-> w, height |-> h,
     data |-> [p \in (0..(h - 1)) \X (0..(w - 1)) |->
                  (p[1] + p[2] + k) % (MaxCount + 1)]]
\* Img(): the grid without cells
EmptyImg == [width |-> 0, height |-> 0, data |-> << >>]

\* lines 59-70: one cell of the result
initializeCell(a, b) ==
    IF b > 0
    THEN IF a > b THEN (IF a < b * 2 THEN a ELSE b * 2) ELSE a
    ELSE 0

\* lines 47-48, as written: the second test compares img2 with itself
ShapeMismatchDetected(img1, img2) ==
    img1.width # img2.width \/ img2.height # img2.height

\* what img2(i, j) yields over the cells of img1: its cell, or whatever lies
\* behind its buffer for a row it does not have
Img2Reads(img1, img2) ==
    {[p \in DOMAIN img1.data |->
         IF p[1] < img2.height THEN img2.data[p] ELSE g] : g \in Garbage}

\* lines 46-75: the grids initialize may return
initializeResults(img1, img2) ==
    IF ShapeMismatchDetected(img1, img2) THEN {EmptyImg}
    ELSE {[width |-> img1.width, height |-> img1.height,
           data |-> [p \in DOMAIN img1.data |->
                        initializeCell(img1.data[p], reads[p])]] :
             reads \in Img2Reads(img1, img2)}

InitShape ==
    \E w1 \in Sides, h1 \in Sides, w2 \in Sides, h2 \in Sides :
      \E k1 \in 0..MaxCount, k2 \in 0..MaxCount :
        /\ pc = "initialize"
        /\ opt = RasterOption
        /\ umca_rast = ShapedImg(w1, h1, k1)
        /\ I_oaks_rast = ShapedImg(w2, h2, k2)
        /\ I_umca_rast = EmptyImg
        /\ oaks_rast = ZeroImg /\ lvtree_rast = ZeroImg
        /\ S_oaks_rast = ZeroImg /\ S_umca_rast = ZeroImg
        /\ seed_value = UInt(0, 0)
        /\ weather = NoAnswer
        /\ weather_value = 0
        /\ sporulations = << >> /\ sus_umca_rasts = << >>
        /\ sus_oaks_rasts = << >> /\ inf_umca_rasts = << >>
        /\ inf_oaks_rasts = << >>
        /\ unresolved_weeks = << >>
        /\ current_week = 0
        /\ dd_start = Date(FirstYear, 1, 1)
        /\ week_in_chunk = 0
        /\ run_pc = << >> /\ run_week = << >>
        /\ written = << >>
        /\ appended = << >> /\ gen_done = << >> /\ disp_done = << >>
        /\ passed = << >>
        /\ checked = 0
        /\ ref = << >>

\* I_umca_rast = initialize(umca_rast, I_oaks_rast)
InitializeCall ==
    /\ pc = "initialize"
    /\ \E out \in initializeResults(umca_rast, I_oaks_rast) :
          I_umca_rast' = out
    /\ pc' = "returned"
    /\ UNCHANGED <<opt, umca_rast, oaks_rast, lvtree_rast, S_oaks_rast,
                   S_umca_rast, I_oaks_rast, seed_value, weather,
                   weather_value, replicas, unresolved_weeks, calendar,
                   week_in_chunk, run_pc, run_week, written, history>>

\* the read of a row img2 does not have faults
InitializeFault ==
    /\ pc = "initialize"
    /\ ~ShapeMismatchDetected(umca_rast, I_oaks_rast)
    /\ umca_rast.height > I_oaks_rast.height
    /\ pc' = "aborted"
    /\ UNCHANGED <<opt, rasters, I_oaks_rast, seed_value, weather,
                   weather_value, replicas, unresolved_weeks, calendar,
                   week_in_chunk, run_pc, run_week, written, history>>

NextShape ==
    \/ InitializeCall
    \/ InitializeFault

ShapeSpec == InitShape /\ [][NextShape]_vars

\* ---- C20
\* C20: initialize applied to two grids of different width or different
\* height returns the empty grid.
C20_MismatchDetected ==
    (/\ pc = "returned"
     /\ \/ umca_rast.width # I_oaks_rast.width
        \/ umca_rast.height # I_oaks_rast.height)
        => I_umca_rast = EmptyImg

\* ------------------------------------------- initial rasters, on their own
\* lines 456-475 applied to canopy-host and infected-oak rasters of every
\* content, a cell without data (negative) included
MaxValue == 3
RasterValues == (-1)..MaxValue

InitSetup ==
    \E umca \in [Cells -> RasterValues], ioaks \in [Cells -> RasterValues] :
        InitState(RasterOption, umca, [c \in Cells |-> MaxValue],
                  [c \in Cells |-> 2 * MaxValue], ioaks)

NextSetup == Setup

SetupSpec == InitSetup /\ [][NextSetup]_vars

\* ---- C21
SmallerOf(a, b) == IF a <= b THEN a ELSE b

\* C21: once the initial rasters are built, I_umca is in every cell the
\* smaller of umca and 2 * I_oaks where I_oaks > 0 and 0 elsewhere, S_umca
\* is umca - I_umca, and for non-negative inputs 0 <= I_umca <= umca and
\* S_umca >= 0.
C21_InitialCanopyInfection ==
    pc # "parse" =>
        \A c \in Cells :
            /\ I_umca_rast[c] =
                 (IF I_oaks_rast[c] > 0
                  THEN SmallerOf(umca_rast[c], 2 * I_oaks_rast[c]) ELSE 0)
            /\ S_umca_rast[c] = umca_rast[c] - I_umca_rast[c]
            /\ (umca_rast[c] >= 0 /\ I_oaks_rast[c] >= 0) =>
                 /\ 0 <= I_umca_rast[c]
                 /\ I_umca_rast[c] <= umca_rast[c]
                 /\ S_umca_rast[c] >= 0

\* a cell where the cap of twice the sources binds, and a cell with canopy
\* hosts and no source
C21_Witness ==
    /\ pc # "parse"
    /\ \E c \in Cells :
           /\ I_oaks_rast[c] > 0
           /\ umca_rast[c] > 2 * I_oaks_rast[c]
           /\ I_umca_rast[c] = 2 * I_oaks_rast[c]
           /\ S_umca_rast[c] > 0
    /\ \E c \in Cells :
           /\ I_oaks_rast[c] <= 0
           /\ umca_rast[c] > 0
           /\ I_umca_rast[c] = 0

\* ---- C22
\* C22: the pending-week queue never holds more than max_weeks_in_year
\* weeks, and the slot written for a queued week during the fetch, and read
\* by a replica during the batch, is one of the slots 0 .. 52 of the buffer.
C22_QueueFitsBuffer ==
    /\ Len(unresolved_weeks) <= max_weeks_in_year
    /\ pc = "fetch" => week_in_chunk <= Len(unresolved_weeks)
    /\ (pc = "fetch" /\ week_in_chunk < Len(unresolved_weeks)) =>
          week_in_chunk < max_weeks_in_year
    /\ (pc = "parallel" /\ weather_coeff) =>
          \A r \in Replicas :
              run_pc[r] \in {"gen", "disp"} =>
                  /\ run_week[r] < max_weeks_in_year
                  /\ run_week[r] \in DOMAIN weather

\* a full year without seasonality: every slot of the buffer is in use
C22_Witness ==
    /\ pc = "parallel"
    /\ weather_coeff
    /\ opt.seasonality = "no"
    /\ Len(unresolved_weeks) = max_weeks_in_year
    /\ weather[max_weeks_in_year - 1] =
          get_spatial_weather(unresolved_weeks[max_weeks_in_year])
    /\ \E r \in Replicas :
           run_pc[r] = "disp" /\ run_week[r] = max_weeks_in_year - 1

====
